---- MODULE Spec2Model ----
(***************************************************************************)
(* Lupin: hiding a payload inside a PDF, PNG or JPEG carrier.              *)
(*                                                                         *)
(* The engines are pure functions over byte buffers.  A byte is a number   *)
(* in 0..255, a buffer a sequence of bytes.  Rust offsets are 0-based and  *)
(* ranges half-open; the operators below keep the source's offsets and     *)
(* convert at the point of indexing.  A call returns Ok(bytes), Err(kind)  *)
(* or, where Rust's bounds checks would abort the call, Panic.             *)
(***************************************************************************)
EXTENDS Integers, Sequences, FiniteSets, TLC

VARIABLES api, carrier, file, calls, tamper, scan

vars == <<api, carrier, file, calls, tamper, scan>>

(***************************************************************************)
(* Bounds of the model.                                                    *)
(***************************************************************************)
MaxPayloadLen == 2
MaxPieces == 2

(***************************************************************************)
(* Results and slices.                                                     *)
(***************************************************************************)
Ok(v) == [kind |-> "ok", err |-> "", val |-> v]

Err(e) == [kind |-> "err", err |-> e, val |-> <<>>]

Panic == [kind |-> "panic", err |-> "index out of range", val |-> <<>>]

IsOk(r) == r.kind = "ok"

IsErr(r, e) == r.kind = "err" /\ r.err = e

\* Option<usize>::None
None == -1

\* &s[a..b] is in range
SliceOk(s, a, b) == 0 <= a /\ a <= b /\ b <= Len(s)

\* &s[a..b], for a range that is in range
Slice(s, a, b) == SubSeq(s, a + 1, b)

\* s[i] with a 0-based index
At(s, i) == s[i + 1]

SetMax(S) == CHOOSE x \in S : \A y \in S : y <= x

RECURSIVE Concat(_)
Concat(ss) == IF ss = <<>> THEN <<>> ELSE Head(ss) \o Concat(Tail(ss))

\* A whitespace test that takes the vertical tab for whitespace, as isspace does
IsAsciiWhitespace_WithVerticalTab(b) == b \in {32, 9, 10, 11, 12, 13}

\* u8::is_ascii_whitespace: space, tab, line feed, form feed, carriage return
IsAsciiWhitespace(b) == b \in {32, 9, 10, 12, 13}

(***************************************************************************)
(* Base64 (base64::engine::general_purpose::STANDARD): the alphabet        *)
(* A-Z a-z 0-9 + /, '=' padding, canonical padding required on decode.     *)
(***************************************************************************)
PadByte == 61

B64Char(v) ==
    IF v < 26 THEN 65 + v
    ELSE IF v < 52 THEN 97 + (v - 26)
    ELSE IF v < 62 THEN 48 + (v - 52)
    ELSE IF v = 62 THEN 43 ELSE 47

B64Value(c) ==
    IF c >= 65 /\ c <= 90 THEN c - 65
    ELSE IF c >= 97 /\ c <= 122 THEN c - 97 + 26
    ELSE IF c >= 48 /\ c <= 57 THEN c - 48 + 52
    ELSE IF c = 43 THEN 62
    ELSE IF c = 47 THEN 63
    ELSE None

SextetWeight == <<262144, 4096, 64, 1>>

OctetWeight == <<65536, 256, 1>>

Base64Encode(p) ==
    LET n == Len(p)
        byteAt(i) == IF i <= n THEN p[i] ELSE 0
        group(g) == byteAt(3 * g + 1) * 65536 + byteAt(3 * g + 2) * 256 + byteAt(3 * g + 3)
    IN  [i \in 1..(4 * ((n + 2) \div 3)) |->
            LET g == (i - 1) \div 4
                k == (i - 1) % 4
                avail == n - 3 * g
            IN  IF (avail = 1 /\ k >= 2) \/ (avail = 2 /\ k = 3)
                THEN PadByte
                ELSE B64Char((group(g) \div SextetWeight[k + 1]) % 64)]

\* The number of '=' that end s (at most 3 are looked at)
TrailingPad(s) ==
    LET n == Len(s)
    IN  IF n >= 1 /\ s[n] = PadByte
        THEN IF n >= 2 /\ s[n - 1] = PadByte
             THEN IF n >= 3 /\ s[n - 2] = PadByte THEN 3 ELSE 2
             ELSE 1
        ELSE 0

Base64Valid(s) ==
    LET n == Len(s)
        pad == TrailingPad(s)
    IN  /\ n % 4 = 0
        /\ pad <= 2
        /\ \A i \in 1..(n - pad) : B64Value(s[i]) # None
        /\ pad = 1 => B64Value(s[n - 1]) % 4 = 0
        /\ pad = 2 => B64Value(s[n - 2]) % 16 = 0

\* decode: Ok(bytes), or Err("DecodeError")
Base64Decode(s) ==
    IF ~Base64Valid(s) THEN Err("DecodeError")
    ELSE LET n == Len(s)
             pad == TrailingPad(s)
             value(i) == IF s[i] = PadByte THEN 0 ELSE B64Value(s[i])
             group(g) == value(4 * g + 1) * 262144 + value(4 * g + 2) * 4096
                         + value(4 * g + 3) * 64 + value(4 * g + 4)
         IN  Ok([j \in 1..(3 * (n \div 4) - pad) |->
                    (group((j - 1) \div 3) \div OctetWeight[((j - 1) % 3) + 1]) % 256])

(***************************************************************************)
(* PdfEngine (engines/pdf.rs)                                              *)
(***************************************************************************)
PdfMagic == <<37, 80, 68, 70>>

EofMarker == <<37, 37, 69, 79, 70>>

\* A scan that keeps the left-most %%EOF instead of the right-most one
EofPos_Leftmost(pdf) ==
    LET hits == {i \in 0..(Len(pdf) - Len(EofMarker)) :
                    Slice(pdf, i, i + Len(EofMarker)) = EofMarker}
    IN  IF hits = {} THEN None ELSE CHOOSE x \in hits : \A y \in hits : x <= y

\* windows(5).rposition(|w| w == b"%%EOF"): the right-most match, or None
EofPos(pdf) ==
    LET hits == {i \in 0..(Len(pdf) - Len(EofMarker)) :
                    Slice(pdf, i, i + Len(EofMarker)) = EofMarker}
    IN  IF hits = {} THEN None ELSE SetMax(hits)

find_eof_end(pdf) ==
    IF EofPos(pdf) = None THEN None ELSE EofPos(pdf) + Len(EofMarker)

\* iter().skip_while(|b| b.is_ascii_whitespace())
RECURSIVE SkipWhitespace(_)
SkipWhitespace(s) ==
    IF s # <<>> /\ IsAsciiWhitespace(Head(s)) THEN SkipWhitespace(Tail(s)) ELSE s

\* An embed that keeps the whitespace after the marker and appends to it
PdfEmbed_KeepsTail(source_data, payload) ==
    LET eof_end == find_eof_end(source_data)
    IN  IF eof_end = None THEN Err("PdfNoEofMarker")
        ELSE LET content_after_eof == Slice(source_data, eof_end, Len(source_data))
                 has_non_whitespace ==
                     \E i \in 1..Len(content_after_eof) :
                         ~IsAsciiWhitespace(content_after_eof[i])
             IN  IF has_non_whitespace THEN Err("EmbedCollision")
                 ELSE Ok(source_data \o Base64Encode(payload))

\* An embed that does not look at what follows the marker
PdfEmbed_NoCollisionCheck(source_data, payload) ==
    LET eof_end == find_eof_end(source_data)
    IN  IF eof_end = None THEN Err("PdfNoEofMarker")
        ELSE Ok(Slice(source_data, 0, eof_end) \o Base64Encode(payload))

\* An embed that writes the text where the marker starts instead of where it ends
PdfEmbed_OverMarker(source_data, payload) ==
    LET eof_end == find_eof_end(source_data)
    IN  IF eof_end = None THEN Err("PdfNoEofMarker")
        ELSE LET encoded_payload == Base64Encode(payload)
                 content_after_eof == Slice(source_data, eof_end, Len(source_data))
                 has_non_whitespace ==
                     \E i \in 1..Len(content_after_eof) :
                         ~IsAsciiWhitespace(content_after_eof[i])
             IN  IF has_non_whitespace THEN Err("EmbedCollision")
                 ELSE Ok(Slice(source_data, 0, eof_end - Len(EofMarker)) \o encoded_payload)

PdfEmbed(source_data, payload) ==
    LET eof_end == find_eof_end(source_data)
    IN  IF eof_end = None THEN Err("PdfNoEofMarker")
        ELSE LET encoded_payload == Base64Encode(payload)
                 content_after_eof == Slice(source_data, eof_end, Len(source_data))
                 has_non_whitespace ==
                     \E i \in 1..Len(content_after_eof) :
                         ~IsAsciiWhitespace(content_after_eof[i])
             IN  IF has_non_whitespace THEN Err("EmbedCollision")
                 ELSE Ok(Slice(source_data, 0, eof_end) \o encoded_payload)

\* An extract that decodes whatever follows the marker, nothing included
PdfExtract_NoEmptyCheck(source_data) ==
    LET eof_pos == EofPos(source_data)
    IN  IF eof_pos = None THEN Err("PdfNoEofMarker")
        ELSE LET payload_start == eof_pos + Len(EofMarker)
                 payload == SkipWhitespace(Slice(source_data, payload_start, Len(source_data)))
                 d == Base64Decode(payload)
             IN  IF IsOk(d) THEN d ELSE Err("PdfCorruptedData")

\* An extract that reads from the left-most %%EOF on
PdfExtract_LeftmostMarker(source_data) ==
    LET eof_pos == EofPos_Leftmost(source_data)
    IN  IF eof_pos = None THEN Err("PdfNoEofMarker")
        ELSE LET payload_start == eof_pos + Len(EofMarker)
                 payload == SkipWhitespace(Slice(source_data, payload_start, Len(source_data)))
             IN  IF payload = <<>> THEN Err("PdfNoHiddenData")
                 ELSE LET d == Base64Decode(payload)
                      IN  IF IsOk(d) THEN d ELSE Err("PdfCorruptedData")

PdfExtract(source_data) ==
    LET eof_pos == EofPos(source_data)
    IN  IF eof_pos = None THEN Err("PdfNoEofMarker")
        ELSE LET payload_start == eof_pos + Len(EofMarker)
                 payload == SkipWhitespace(Slice(source_data, payload_start, Len(source_data)))
             IN  IF payload = <<>> THEN Err("PdfNoHiddenData")
                 ELSE LET d == Base64Decode(payload)
                      IN  IF IsOk(d) THEN d ELSE Err("PdfCorruptedData")

(***************************************************************************)
(* JpegEngine (engines/jpeg.rs)                                            *)
(***************************************************************************)
JpegMagic == <<255, 216, 255>>

SOI_MARKER == 65496

EOI_MARKER == 65497

APP13_MARKER == 65517

SOS_MARKER == 65498

\* 0xFFD0 and 0xFFD7: the first and the last RSTn marker
RST0_MARKER == 65488

RST7_MARKER == 65495

\* 0xFFFF: the greatest value of the 16-bit segment length
MaxSegmentLength == 65535

\* read_u16_be(&data[pos..pos + 2])
read_u16_be(data, pos) == At(data, pos) * 256 + At(data, pos + 1)

\* A writer that puts the low byte first
write_u16_be_LowByteFirst(value) == <<value % 256, value \div 256>>

\* write_u16_be(value): value is a u16
write_u16_be(value) == <<(value \div 256) % 256, value % 256>>

\* `as u16`
AsU16(n) == n % 65536

\* Option<(usize, usize)>: <<>> is None, <<start, end>> is Some((start, end))
NoSegment == <<>>

\* A position scan that answers the start of the buffer, before SOI
find_insert_position_BeforeSoi(jpeg_data) ==
    IF Len(jpeg_data) < 2 THEN Err("JpegInvalidFormat")
    ELSE IF read_u16_be(jpeg_data, 0) # SOI_MARKER THEN Err("JpegInvalidFormat")
    ELSE Ok(0)

\* find_insert_position: Ok is the offset 2, as a number; an error is a result
find_insert_position(jpeg_data) ==
    IF Len(jpeg_data) < 2 THEN Err("JpegInvalidFormat")
    ELSE IF read_u16_be(jpeg_data, 0) # SOI_MARKER THEN Err("JpegInvalidFormat")
    ELSE Ok(2)

\* The loop of find_lupin_com_segment, entered with the scan position pos
RECURSIVE SegmentWalk(_, _)
SegmentWalk(jpeg_data, pos) ==
    IF ~(pos + 4 < Len(jpeg_data)) THEN NoSegment
    ELSE IF At(jpeg_data, pos) # 255 THEN NoSegment
    ELSE LET marker == read_u16_be(jpeg_data, pos)
         IN  IF marker = SOS_MARKER \/ marker = EOI_MARKER THEN NoSegment
             ELSE IF marker = SOI_MARKER \/ (marker >= RST0_MARKER /\ marker <= RST7_MARKER)
                  THEN SegmentWalk(jpeg_data, pos + 2)
             ELSE IF pos + 4 > Len(jpeg_data) THEN NoSegment
             ELSE LET length == read_u16_be(jpeg_data, pos + 2)
                  IN  IF marker = APP13_MARKER THEN <<pos, pos + 2 + length>>
                      ELSE SegmentWalk(jpeg_data, pos + 2 + length)

find_lupin_com_segment(jpeg_data) == SegmentWalk(jpeg_data, 2)

\* The payload-size check of embed: segment_data_length > 0xFFFF
\* A size test that holds the whole segment to the limit of its payload alone
SegmentTooLarge_PayloadLimit(segment_data_length) == segment_data_length > MaxSegmentLength - 2

SegmentTooLarge(segment_data_length) == segment_data_length > MaxSegmentLength

JpegEmbed(source_data, payload) ==
    IF find_lupin_com_segment(source_data) # NoSegment THEN Err("EmbedCollision")
    ELSE LET insert == find_insert_position(source_data)
         IN  IF ~IsOk(insert) THEN insert
             ELSE LET insert_pos == insert.val
                      payload_bytes == Base64Encode(payload)
                      segment_data_length == 2 + Len(payload_bytes)
                  IN  IF SegmentTooLarge(segment_data_length) THEN Err("JpegPayloadTooLarge")
                      ELSE LET app13_segment ==
                                   write_u16_be(APP13_MARKER)
                                   \o write_u16_be(AsU16(segment_data_length))
                                   \o payload_bytes
                           IN  Ok(Slice(source_data, 0, insert_pos)
                                  \o app13_segment
                                  \o Slice(source_data, insert_pos, Len(source_data)))

JpegExtract(source_data) ==
    LET segment == find_lupin_com_segment(source_data)
    IN  IF segment = NoSegment THEN Err("JpegNoHiddenData")
        ELSE LET payload_start == segment[1] + 4
                 segment_end == segment[2]
             IN  IF ~SliceOk(source_data, payload_start, segment_end) THEN Panic
                 ELSE LET d == Base64Decode(Slice(source_data, payload_start, segment_end))
                      IN  IF IsOk(d) THEN d ELSE Err("JpegExtractionFailed")

(***************************************************************************)
(* PngEngine (engines/png.rs).  A u32 that may exceed 2^31 - 1 (the CRC)   *)
(* is kept as its four big-endian bytes, the form to_be_bytes writes and   *)
(* from_be_bytes reads, so that every step stays a 32-bit value.           *)
(***************************************************************************)
PngMagic == <<137, 80, 78, 71, 13, 10, 26, 10>>

LUPIN_CHUNK_TYPE == <<108, 112, 78, 103>>

IendType == <<73, 69, 78, 68>>

\* 0xFFFFFFFF
CRC32_INIT == <<255, 255, 255, 255>>

\* 0xEDB88320
CRC32_POLYNOMIAL == <<237, 184, 131, 32>>

\* 0xFFFFFFFF
CRC32_FINAL_XOR == <<255, 255, 255, 255>>

BitWeight == <<1, 2, 4, 8, 16, 32, 64, 128>>

\* x ^ y, bit by bit, on values below 2^n
RECURSIVE XorBits(_, _, _)
XorBits(x, y, n) ==
    IF n = 0 THEN 0
    ELSE ((x + y) % 2) + 2 * XorBits(x \div 2, y \div 2, n - 1)

\* x ^ y on 4-bit values, tabulated
XorNibble == [x \in 0..15 |-> [y \in 0..15 |-> XorBits(x, y, 4)]]

\* x ^ y on u8
XorByte(x, y) == XorNibble[x \div 16][y \div 16] * 16 + XorNibble[x % 16][y % 16]

\* a ^ b on u32
Xor32(a, b) == <<XorByte(a[1], b[1]), XorByte(a[2], b[2]), XorByte(a[3], b[3]), XorByte(a[4], b[4])>>

\* x ^ (byte i of CRC32_POLYNOMIAL) on u8, tabulated
PolyXor == [i \in 1..4 |-> [x \in 0..255 |-> XorByte(x, CRC32_POLYNOMIAL[i])]]

\* a >> 1 on u32
Shr1(a) ==
    <<a[1] \div 2,
      (a[2] \div 2) + (a[1] % 2) * 128,
      (a[3] \div 2) + (a[2] % 2) * 128,
      (a[4] \div 2) + (a[3] % 2) * 128>>

\* (a >> 1) ^ CRC32_POLYNOMIAL on u32
Shr1XorPoly(a) ==
    <<PolyXor[1][a[1] \div 2],
      PolyXor[2][(a[2] \div 2) + (a[1] % 2) * 128],
      PolyXor[3][(a[3] \div 2) + (a[2] % 2) * 128],
      PolyXor[4][(a[4] \div 2) + (a[3] % 2) * 128]>>

\* for _ in 0..8 { if crc & 1 != 0 { crc = (crc >> 1) ^ POLY } else { crc >>= 1 } },
\* with n rounds left
RECURSIVE CrcRounds(_, _)
CrcRounds(crc, n) ==
    IF n = 0 THEN crc
    ELSE IF crc[4] % 2 # 0 THEN CrcRounds(Shr1XorPoly(crc), n - 1)
    ELSE CrcRounds(Shr1(crc), n - 1)

\* crc ^= byte as u32; for _ in 0..8 { ... }
CrcByte(crc, byte) == CrcRounds(<<crc[1], crc[2], crc[3], XorByte(crc[4], byte)>>, 8)

\* for &byte in bytes { ... }, from the running value crc
RECURSIVE CrcFold(_, _, _)
CrcFold(crc, bytes, i) ==
    IF i > Len(bytes) THEN crc ELSE CrcFold(CrcByte(crc, bytes[i]), bytes, i + 1)

\* A checksum that leaves out the final XOR
calculate_crc_NoFinalXor(chunk_type, data) ==
    CrcFold(CrcFold(CRC32_INIT, chunk_type, 1), data, 1)

calculate_crc(chunk_type, data) ==
    Xor32(CrcFold(CrcFold(CRC32_INIT, chunk_type, 1), data, 1), CRC32_FINAL_XOR)

\* u32::from_be_bytes([data[pos], .., data[pos + 3]]) as usize
u32_from_be_bytes(data, pos) ==
    At(data, pos) * 16777216 + At(data, pos + 1) * 65536
    + At(data, pos + 2) * 256 + At(data, pos + 3)

\* (n as u32).to_be_bytes(), for n < 2^31
u32_to_be_bytes(n) ==
    <<(n \div 16777216) % 256, (n \div 65536) % 256, (n \div 256) % 256, n % 256>>

\* The outcome of a position scan that indexed outside its buffer
OutOfRange == -2

RECURSIVE IendWalk(_, _)

\* A loop that asks only for the 4 bytes of the length field before it reads
\* the 8 bytes of the chunk header
IendWalk_LengthFieldOnly(data, pos) ==
    IF ~(pos + 4 <= Len(data)) THEN None
    ELSE IF ~SliceOk(data, pos, pos + 8) THEN OutOfRange
    ELSE LET chunk_length == u32_from_be_bytes(data, pos)
             chunk_type == Slice(data, pos + 4, pos + 8)
         IN  IF chunk_type = IendType THEN pos
             ELSE IendWalk(data, pos + 4 + 4 + chunk_length + 4)

\* The loop of find_iend_position, entered with the scan position pos:
\* the offset of the IEND chunk, None for Err(PngNoIdatChunk), or OutOfRange
\* when data[pos..pos + 8] is not inside the buffer
IendWalk(data, pos) ==
    IF ~(pos + 8 <= Len(data)) THEN None
    ELSE IF ~SliceOk(data, pos, pos + 8) THEN OutOfRange
    ELSE LET chunk_length == u32_from_be_bytes(data, pos)
             chunk_type == Slice(data, pos + 4, pos + 8)
         IN  IF chunk_type = IendType THEN pos
             ELSE IendWalk(data, pos + 4 + 4 + chunk_length + 4)

find_iend_position(data) == IendWalk(data, 8)

\* A chunk whose CRC covers the data and leaves out the type
create_chunk_CrcOfData(chunk_type, data) ==
    u32_to_be_bytes(Len(data)) \o chunk_type \o data \o calculate_crc(<<>>, data)

create_chunk(chunk_type, data) ==
    u32_to_be_bytes(Len(data)) \o chunk_type \o data \o calculate_crc(chunk_type, data)

\* The loop of extract_custom_chunk, entered with the scan position pos
RECURSIVE ChunkWalk(_, _, _)
ChunkWalk(data, chunk_type, pos) ==
    IF ~(pos + 8 <= Len(data)) THEN Err("PngNoHiddenData")
    ELSE IF ~SliceOk(data, pos, pos + 8) THEN Panic
    ELSE LET chunk_length == u32_from_be_bytes(data, pos)
             current_chunk_type == Slice(data, pos + 4, pos + 8)
         IN  IF current_chunk_type = chunk_type
             THEN LET data_start == pos + 8
                      data_end == data_start + chunk_length
                  IN  IF data_end + 4 > Len(data) THEN Err("PngNoHiddenData")
                      ELSE IF ~SliceOk(data, data_start, data_end + 4) THEN Panic
                      ELSE LET chunk_data == Slice(data, data_start, data_end)
                               stored_crc == Slice(data, data_end, data_end + 4)
                               calculated_crc == calculate_crc(chunk_type, chunk_data)
                           IN  IF stored_crc # calculated_crc THEN Err("PngCorruptedData")
                               ELSE Ok(chunk_data)
             ELSE IF current_chunk_type = IendType THEN Err("PngNoHiddenData")
             ELSE ChunkWalk(data, chunk_type, pos + 4 + 4 + chunk_length + 4)

extract_custom_chunk(data, chunk_type) == ChunkWalk(data, chunk_type, 8)

\* An embed that refuses a carrier in which it finds an lpNg chunk
PngEmbed_RejectsSecond(source_data, payload) ==
    LET iend_pos == find_iend_position(source_data)
    IN  IF iend_pos = None THEN Err("PngNoIdatChunk")
        ELSE IF ~IsErr(extract_custom_chunk(source_data, LUPIN_CHUNK_TYPE), "PngNoHiddenData")
        THEN Err("EmbedCollision")
        ELSE Ok(Slice(source_data, 0, iend_pos)
                \o create_chunk(LUPIN_CHUNK_TYPE, Base64Encode(payload))
                \o Slice(source_data, iend_pos, Len(source_data)))

\* An embed that appends the chunk when it finds no IEND
PngEmbed_AppendsWithoutIend(source_data, payload) ==
    LET iend_pos == find_iend_position(source_data)
        steg_chunk == create_chunk(LUPIN_CHUNK_TYPE, Base64Encode(payload))
    IN  IF iend_pos = None THEN Ok(source_data \o steg_chunk)
        ELSE Ok(Slice(source_data, 0, iend_pos)
                \o steg_chunk
                \o Slice(source_data, iend_pos, Len(source_data)))

PngEmbed(source_data, payload) ==
    LET iend_pos == find_iend_position(source_data)
    IN  IF iend_pos = None THEN Err("PngNoIdatChunk")
        ELSE IF iend_pos = OutOfRange THEN Panic
        ELSE LET encoded_payload == Base64Encode(payload)
                 steg_chunk == create_chunk(LUPIN_CHUNK_TYPE, encoded_payload)
             IN  Ok(Slice(source_data, 0, iend_pos)
                    \o steg_chunk
                    \o Slice(source_data, iend_pos, Len(source_data)))

\* An extract that reports undecodable text as an absent record
PngExtract_UndecodableAsAbsent(source_data) ==
    LET encoded_data == extract_custom_chunk(source_data, LUPIN_CHUNK_TYPE)
    IN  IF ~IsOk(encoded_data) THEN encoded_data
        ELSE LET d == Base64Decode(encoded_data.val)
             IN  IF IsOk(d) THEN d ELSE Err("PngNoHiddenData")

PngExtract(source_data) ==
    LET encoded_data == extract_custom_chunk(source_data, LUPIN_CHUNK_TYPE)
    IN  IF ~IsOk(encoded_data) THEN encoded_data
        ELSE LET d == Base64Decode(encoded_data.val)
             IN  IF IsOk(d) THEN d ELSE Err("PngCorruptedData")

(***************************************************************************)
(* EngineRouter and operations (operations.rs)                             *)
(***************************************************************************)
IsPrefix(m, s) == Len(m) <= Len(s) /\ Slice(s, 0, Len(m)) = m

magic_bytes(engine) ==
    IF engine = "PDF" THEN PdfMagic ELSE IF engine = "PNG" THEN PngMagic ELSE JpegMagic

\* The engines in registration order
Engines == <<"PDF", "PNG", "JPEG">>

\* detect_engine: the first engine whose magic bytes are a prefix, or "" for the error
detect_engine(source_data) ==
    LET hits == {i \in 1..Len(Engines) : IsPrefix(magic_bytes(Engines[i]), source_data)}
    IN  IF hits = {} THEN ""
        ELSE Engines[CHOOSE i \in hits : \A j \in hits : i <= j]

EngineEmbed(engine, source_data, payload) ==
    IF engine = "PDF" THEN PdfEmbed(source_data, payload)
    ELSE IF engine = "PNG" THEN PngEmbed(source_data, payload)
    ELSE JpegEmbed(source_data, payload)

EngineExtract(engine, source_data) ==
    IF engine = "PDF" THEN PdfExtract(source_data)
    ELSE IF engine = "PNG" THEN PngExtract(source_data)
    ELSE JpegExtract(source_data)

\* An embed that falls back to the PDF engine when no signature matches
operations_embed_DefaultPdf(source_data, payload_data) ==
    LET engine == detect_engine(source_data)
    IN  EngineEmbed(IF engine = "" THEN "PDF" ELSE engine, source_data, payload_data)

\* operations::embed: detect_engine(..)?, engine.embed(..)?
operations_embed(source_data, payload_data) ==
    LET engine == detect_engine(source_data)
    IN  IF engine = "" THEN Err("EngineDetection")
        ELSE EngineEmbed(engine, source_data, payload_data)

\* An extract that wraps the engine's error instead of passing it on
operations_extract_Wrapping(source_data) ==
    LET engine == detect_engine(source_data)
    IN  IF engine = "" THEN Err("EngineDetection")
        ELSE LET res == EngineExtract(engine, source_data)
             IN  IF IsOk(res) THEN res ELSE Err("ExtractFailed")

\* operations::extract: detect_engine(..)?, engine.extract(..)?
operations_extract(source_data) ==
    LET engine == detect_engine(source_data)
    IN  IF engine = "" THEN Err("EngineDetection")
        ELSE EngineExtract(engine, source_data)

\* SteganographyEngine::format_name
format_name(engine) ==
    IF engine = "PDF" THEN "PDF" ELSE IF engine = "PNG" THEN "PNG" ELSE "JPEG"

\* No metadata: the call failed, or an engine was called directly
NoMetadata == <<>>

\* The EmbedResult that operations::embed returns beside the buffer
EmbedResult(source_data, payload_data) ==
    LET engine == detect_engine(source_data)
    IN  IF engine = "" THEN NoMetadata
        ELSE LET embedded_data == EngineEmbed(engine, source_data, payload_data)
             IN  IF ~IsOk(embedded_data) THEN NoMetadata
                 ELSE [source_size |-> Len(source_data),
                       payload_size |-> Len(payload_data),
                       output_size |-> Len(embedded_data.val),
                       engine |-> format_name(engine)]

\* The ExtractResult that operations::extract returns beside the payload
ExtractResult(source_data) ==
    LET engine == detect_engine(source_data)
    IN  IF engine = "" THEN NoMetadata
        ELSE LET payload_data == EngineExtract(engine, source_data)
             IN  IF ~IsOk(payload_data) THEN NoMetadata
                 ELSE [source_size |-> Len(source_data),
                       payload_size |-> Len(payload_data.val),
                       engine |-> format_name(engine)]

(***************************************************************************)
(* The callers.  api is the entry point a session uses: one engine, called *)
(* directly, or operations, which routes by magic bytes.                   *)
(***************************************************************************)
ApiEngine(a) ==
    IF a = "PdfEngine" THEN "PDF" ELSE IF a = "PngEngine" THEN "PNG" ELSE "JPEG"

ApiEmbed(a, source_data, payload) ==
    IF a = "operations" THEN operations_embed(source_data, payload)
    ELSE EngineEmbed(ApiEngine(a), source_data, payload)

ApiExtract(a, source_data) ==
    IF a = "operations" THEN operations_extract(source_data)
    ELSE EngineExtract(ApiEngine(a), source_data)

ApiEmbedResult(a, source_data, payload) ==
    IF a = "operations" THEN EmbedResult(source_data, payload) ELSE NoMetadata

ApiExtractResult(a, source_data) ==
    IF a = "operations" THEN ExtractResult(source_data) ELSE NoMetadata

(***************************************************************************)
(* Inputs: payloads and carriers.                                          *)
(***************************************************************************)
RECURSIVE SeqsUpTo(_, _)
SeqsUpTo(S, n) ==
    IF n = 0 THEN {<<>>}
    ELSE LET shorter == SeqsUpTo(S, n - 1)
         IN  shorter \cup {Append(s, x) : s \in shorter, x \in S}

PayloadBytes == {0, 255}

\* "Man": a payload of one full Base64 group
SamplePayloads == {<<77, 97, 110>>}

Payloads == SeqsUpTo(PayloadBytes, MaxPayloadLen) \cup SamplePayloads

\* The longest payload made of the byte 42 (test_large_payload) that fits a
\* JPEG segment, and the first that does not
BoundaryPayloadLen == ((MaxSegmentLength - 2) \div 4) * 3

\* vec![42u8; n] for the two lengths
FortyTwos == [i \in 1..(BoundaryPayloadLen + 1) |-> 42]

LargePayloads == {SubSeq(FortyTwos, 1, n) : n \in {BoundaryPayloadLen, BoundaryPayloadLen + 1}}

PieceSeqs(pieces) == SeqsUpTo(pieces, MaxPieces)

\* "QQ==": Base64 of the one byte "A"
EncodedA == <<81, 81, 61, 61>>

\* %%EOF, line feed, vertical tab (no ASCII whitespace for Rust), "A", "%", "QQ=="
PdfPieces == {EofMarker, <<10>>, <<11>>, <<65>>, <<37>>, EncodedA}

PdfCarriers == {PdfMagic \o Concat(ps) : ps \in PieceSeqs(PdfPieces)}

\* A chunk as it lies in a file; the tests' carriers hold dummy CRCs
Chunk(chunk_type, data, crc) == u32_to_be_bytes(Len(data)) \o chunk_type \o data \o crc

IhdrChunk == Chunk(<<73, 72, 68, 82>>, <<8>>, <<0, 0, 0, 0>>)

IendChunk == Chunk(IendType, <<>>, <<174, 66, 96, 130>>)

\* A hidden record of an earlier embed of the payload "A"
LupinChunk == create_chunk(LUPIN_CHUNK_TYPE, EncodedA)

\* A chunk header that declares more data than the file holds
OverlongHeader == <<0, 0, 0, 200, 73, 68, 65, 84>>

PngPieces == {IhdrChunk, IendChunk, LupinChunk, OverlongHeader, <<0, 0>>}

PngCarriers == {PngMagic \o Concat(ps) : ps \in PieceSeqs(PngPieces)}

SoiBytes == <<255, 216>>

EoiBytes == <<255, 217>>

\* APP0 with one data byte, APP13 holding "QQ==", APP13 with the declared
\* length 0, APP13 with a declared length past the end, EOI, SOS, RST0, a data byte
JpegPieces ==
    {<<255, 224, 0, 3, 74>>, <<255, 237, 0, 6>> \o EncodedA, <<255, 237, 0, 0, 0>>,
     <<255, 237, 0, 9, 0>>, EoiBytes, <<255, 218>>, <<255, 208>>, <<0>>}

\* With and without the SOI marker in front
JpegHeads == {SoiBytes, <<>>}

JpegCarriers == {h \o Concat(ps) : h \in JpegHeads, ps \in PieceSeqs(JpegPieces)}

\* The carrier the large payloads are embedded into
MinimalJpeg == SoiBytes \o EoiBytes

\* The smallest PNG the tests build: IHDR, IEND (the IDAT chunk left out)
MinimalPng == PngMagic \o IhdrChunk \o IendChunk

\* The carriers whose inserted chunk is tampered with: without and with a
\* hidden record of an earlier embed
TamperCarriers == {MinimalPng, PngMagic \o IhdrChunk \o LupinChunk \o IendChunk}

\* Buffers no engine's magic bytes are a prefix of
UnsupportedCarriers == {<<>>, <<37, 80, 68>>, SoiBytes, <<137, 80, 78, 71>>, <<66, 77, 0, 0, 0>>}

Carriers(a) ==
    IF a = "PdfEngine" THEN PdfCarriers
    ELSE IF a = "PngEngine" THEN PngCarriers
    ELSE IF a = "JpegEngine" THEN JpegCarriers
    ELSE {c \in PdfCarriers \cup PngCarriers \cup JpegCarriers : detect_engine(c) # ""}
         \cup UnsupportedCarriers

(***************************************************************************)
(* The state machine.  A session starts from a carrier file; the caller    *)
(* embeds (at most twice, the second time into the first output), and      *)
(* extracts from the file it holds.  calls records every call made, with   *)
(* its payload and its result; file is the buffer the next call is given.  *)
(* An error ends the session.  Between a PNG embed and the extract a       *)
(* single bit of the inserted chunk's data or CRC may be flipped.  scan is  *)
(* the position of a scan loop that is followed iteration by iteration.    *)
(***************************************************************************)
NoTamper == <<>>

Call(op, payload, res, meta) ==
    [op |-> op, payload |-> payload, res |-> res, meta |-> meta]

\* No loop of a scan is being followed
NoScan == [at |-> "idle", pos |-> 0]

InitWith(a, carriers) ==
    /\ api = a
    /\ carrier \in carriers
    /\ file = carrier
    /\ calls = <<>>
    /\ tamper = NoTamper
    /\ scan = NoScan

CanCall == IF calls = <<>> THEN TRUE ELSE IsOk(calls[Len(calls)].res)

NoExtractYet == \A i \in 1..Len(calls) : calls[i].op # "extract"

\* The payloads of a second embed
SecondPayloads == {q \in Payloads : Len(q) <= 1} \cup SamplePayloads

EmbedWith(first) ==
    /\ CanCall
    /\ NoExtractYet
    /\ Len(calls) <= 1
    /\ tamper = NoTamper
    /\ \E p \in (IF calls = <<>> THEN first ELSE SecondPayloads) :
        LET res == ApiEmbed(api, file, p)
        IN  /\ calls' = Append(calls, Call("embed", p, res, ApiEmbedResult(api, file, p)))
            /\ file' = IF IsOk(res) THEN res.val ELSE file
    /\ UNCHANGED <<api, carrier, tamper, scan>>

Embed == EmbedWith(Payloads)

\* The embed of the capacity sessions: the large payloads too, into the minimal JPEG
EmbedLarge ==
    EmbedWith(IF carrier = MinimalJpeg THEN Payloads \cup LargePayloads ELSE Payloads)

Extract ==
    /\ CanCall
    /\ NoExtractYet
    /\ calls' = Append(calls, Call("extract", <<>>, ApiExtract(api, file),
                                   ApiExtractResult(api, file)))
    /\ UNCHANGED <<api, carrier, file, tamper, scan>>

\* buf with bit k of the byte at offset i inverted
FlipBit(buf, i, k) == [buf EXCEPT ![i + 1] = XorByte(@, BitWeight[k + 1])]

\* The offsets of the data and CRC bytes of the chunk the embed inserted
InsertedDataAndCrc ==
    LET at == find_iend_position(carrier)
    IN  (at + 8)..(at + 8 + Len(Base64Encode(calls[1].payload)) + 4 - 1)

Tamper ==
    /\ Len(calls) = 1
    /\ calls[1].op = "embed"
    /\ IsOk(calls[1].res)
    /\ tamper = NoTamper
    /\ \E i \in InsertedDataAndCrc, k \in 0..7 :
        /\ file' = FlipBit(file, i, k)
        /\ tamper' = <<i, k>>
    /\ UNCHANGED <<api, carrier, calls, scan>>

Init == InitWith("operations", Carriers("operations"))

Next == Embed \/ Extract

Spec == Init /\ [][Next]_vars

InitPdf == InitWith("PdfEngine", PdfCarriers)

SpecPdf == InitPdf /\ [][Next]_vars

InitPng == InitWith("PngEngine", PngCarriers)

SpecPng == InitPng /\ [][Next]_vars

InitTamper == InitWith("PngEngine", TamperCarriers)

NextTamper == Embed \/ Tamper \/ Extract

SpecTamper == InitTamper /\ [][NextTamper]_vars

InitJpeg == InitWith("JpegEngine", JpegCarriers)

SpecJpeg == InitJpeg /\ [][Next]_vars

NextCapacity == EmbedLarge \/ Extract

SpecCapacity == InitJpeg /\ [][NextCapacity]_vars

\* create_minimal_pdf(): the 125-byte PDF of the engine's tests
MinimalPdf ==
    << 37, 80, 68, 70, 45, 49, 46, 52, 10, 49, 32, 48, 32, 111, 98, 106, 10, 60, 60, 10,
       47, 84, 121, 112, 101, 32, 47, 67, 97, 116, 97, 108, 111, 103, 10, 62, 62, 10, 101, 110,
       100, 111, 98, 106, 10, 120, 114, 101, 102, 10, 48, 32, 49, 10, 48, 48, 48, 48, 48, 48,
       48, 48, 48, 48, 32, 54, 53, 53, 51, 53, 32, 102, 10, 116, 114, 97, 105, 108, 101, 114,
       10, 60, 60, 10, 47, 83, 105, 122, 101, 32, 49, 10, 47, 82, 111, 111, 116, 32, 49, 32,
       48, 32, 82, 10, 62, 62, 10, 115, 116, 97, 114, 116, 120, 114, 101, 102, 10, 55, 51, 10,
       37, 37, 69, 79, 70 >>

\* b"secret message"
SecretMessage ==
    << 115, 101, 99, 114, 101, 116, 32, 109, 101, 115, 115, 97, 103, 101 >>

\* The PDF sessions that also hold the minimal PDF and the 14-byte payload
InitPdfSample == InitWith("PdfEngine", PdfCarriers \cup {MinimalPdf})

EmbedSample == EmbedWith(Payloads \cup {SecretMessage})

NextPdfSample == EmbedSample \/ Extract

SpecPdfSample == InitPdfSample /\ [][NextPdfSample]_vars

\* "!!!!": four bytes outside the Base64 alphabet
NotBase64 == <<33, 33, 33, 33>>

\* lpNg chunks that cannot be recovered: a length past the end of the buffer, a
\* chunk cut inside its CRC, a CRC that does not match, a text that is not
\* Base64 under a matching CRC
DamagedLupinChunks ==
    {<<0, 0, 0, 200>> \o LUPIN_CHUNK_TYPE,
     SubSeq(LupinChunk, 1, Len(LupinChunk) - 2),
     SubSeq(LupinChunk, 1, Len(LupinChunk) - 1) \o <<0>>,
     create_chunk(LUPIN_CHUNK_TYPE, NotBase64)}

\* Chunk headers cut short, and a length field far beyond any buffer
BrokenHeaders ==
    {<<0, 0, 0>>, <<0, 0, 0, 0, 73, 69>>, <<0, 0, 0, 0, 108, 112, 78>>,
     <<127, 0, 0, 0, 73, 68, 65, 84>>}

\* PNG buffers that are not well formed, buffers shorter than the signature
\* among them
DamagedPngs ==
    {PngMagic \o pre \o piece \o post :
        pre \in {<<>>, IhdrChunk},
        piece \in DamagedLupinChunks \cup BrokenHeaders,
        post \in {<<>>, IendChunk}}
    \cup {<<>>, <<137, 80, 78, 71>>, <<137, 80, 78, 71, 13, 10, 26>>}

\* APP13 segments whose text is not Base64
UndecodableSegments == {<<255, 237, 0, 6>> \o NotBase64, <<255, 237, 0, 3, 65>>}

DamagedJpegs ==
    {SoiBytes \o pre \o piece \o post :
        pre \in {<<>>, <<255, 224, 0, 3, 74>>},
        piece \in UndecodableSegments,
        post \in {<<>>, EoiBytes}}

\* PDFs with four and five bytes of whitespace after the marker, and with text
\* that is not Base64 after it
TailedPdfs ==
    {PdfMagic \o EofMarker \o tail :
        tail \in {<<10, 10, 10, 10>>, <<32, 32, 10, 9, 13>>, <<10>> \o NotBase64,
                  <<10, 65>>, <<10, 10, 10, 10>> \o EncodedA}}

DamagedCarriers(a) ==
    IF a = "PdfEngine" THEN TailedPdfs
    ELSE IF a = "PngEngine" THEN DamagedPngs
    ELSE DamagedJpegs

\* The sessions of the three engines, the damaged carriers among their inputs
InitEngines ==
    \E a \in {"PdfEngine", "PngEngine", "JpegEngine"} :
        InitWith(a, Carriers(a) \cup DamagedCarriers(a))

SpecEngines == InitEngines /\ [][Next]_vars

\* "1234" and "56789": the check string of CRC-32 as a chunk type and its data
CheckString == <<49, 50, 51, 52, 53, 54, 55, 56, 57>>

\* The arguments of calculate_crc, the 4 bytes of the chunk type first
CrcInputs ==
    {type \o data :
        type \in {IendType, LUPIN_CHUNK_TYPE, <<73, 72, 68, 82>>, <<0, 0, 0, 0>>,
                  <<255, 255, 255, 255>>},
        data \in SeqsUpTo(PayloadBytes \cup {97}, MaxPayloadLen) \cup {EncodedA}}
    \cup {CheckString}

InitCrc == InitWith("calculate_crc", CrcInputs)

\* A call of calculate_crc on the chunk type and the data the carrier holds
CalculateCrc ==
    /\ api = "calculate_crc"
    /\ calls = <<>>
    /\ calls' = <<Call("calculate_crc", carrier,
                       Ok(calculate_crc(Slice(carrier, 0, 4), Slice(carrier, 4, Len(carrier)))),
                       NoMetadata)>>
    /\ UNCHANGED <<api, carrier, file, tamper, scan>>

NextCrc == CalculateCrc

SpecCrc == InitCrc /\ [][NextCrc]_vars

(***************************************************************************)
(* The scan loops, one iteration per step: scan.pos is the local pos at    *)
(* the head of the loop; scan.at tells whether the loop is still running,  *)
(* whether the function returned from inside it, whether the loop was left *)
(* (its condition false, or a break), or whether an index was out of range. *)
(***************************************************************************)
Looping(pos) == [at |-> "loop", pos |-> pos]

Returned(pos) == [at |-> "returned", pos |-> pos]

Left(pos) == [at |-> "left", pos |-> pos]

Panicked(pos) == [at |-> "panicked", pos |-> pos]

\* pos += 4 + 4 + chunk_length + 4
NextChunk(pos, chunk_length) == pos + 4 + 4 + chunk_length + 4

\* A step to the next segment that leaves out the 2 bytes of the marker
NextSegment_LengthOnly(pos, length) == pos + length

\* pos += 2 + length
NextSegment(pos, length) == pos + 2 + length

\* Buffers with chunks and segments of declared length 0
ZeroLengthPngs ==
    {PngMagic \o Chunk(<<73, 68, 65, 84>>, <<>>, <<0, 0, 0, 0>>) \o rest :
        rest \in {<<>>, Chunk(<<73, 68, 65, 84>>, <<>>, <<0, 0, 0, 0>>) \o IendChunk, LupinChunk, <<0, 0, 0, 0>>}}

ZeroLengthJpegs ==
    {SoiBytes \o <<255, 224, 0, 0>> \o rest :
        rest \in {<<>>, <<255, 224, 0, 0, 255, 217>>, <<255, 237, 0, 2, 255, 217>>, <<255>>}}
    \cup {SoiBytes \o <<255, 208, 255, 216, 255, 224, 0, 2>> \o rest :
        rest \in {<<255, 224, 0, 0, 0>>, <<255, 237, 0, 0, 0>>, <<255, 254, 0, 1, 0, 0>>}}

ScanCarriers(a) ==
    IF a = "find_lupin_com_segment"
    THEN JpegCarriers \cup DamagedJpegs \cup ZeroLengthJpegs
    ELSE PngCarriers \cup DamagedPngs \cup ZeroLengthPngs

InitScan ==
    \E a \in {"find_iend_position", "extract_custom_chunk", "find_lupin_com_segment"} :
        /\ api = a
        /\ carrier \in ScanCarriers(a)
        /\ file = carrier
        /\ calls = <<>>
        /\ tamper = NoTamper
        /\ scan = Looping(IF a = "find_lupin_com_segment" THEN 2 ELSE 8)

\* One iteration of the loop of find_iend_position
IendStep ==
    /\ api = "find_iend_position"
    /\ scan.at = "loop"
    /\ LET data == carrier
           pos == scan.pos
       IN  scan' =
               IF ~(pos + 8 <= Len(data)) THEN Left(pos)
               ELSE IF ~SliceOk(data, pos, pos + 8) THEN Panicked(pos)
               ELSE LET chunk_length == u32_from_be_bytes(data, pos)
                        chunk_type == Slice(data, pos + 4, pos + 8)
                    IN  IF chunk_type = IendType THEN Returned(pos)
                        ELSE Looping(NextChunk(pos, chunk_length))
    /\ UNCHANGED <<api, carrier, file, calls, tamper>>

\* One iteration of the loop of extract_custom_chunk, looking for lpNg
ChunkStep ==
    /\ api = "extract_custom_chunk"
    /\ scan.at = "loop"
    /\ LET data == carrier
           pos == scan.pos
       IN  scan' =
               IF ~(pos + 8 <= Len(data)) THEN Left(pos)
               ELSE IF ~SliceOk(data, pos, pos + 8) THEN Panicked(pos)
               ELSE LET chunk_length == u32_from_be_bytes(data, pos)
                        current_chunk_type == Slice(data, pos + 4, pos + 8)
                    IN  IF current_chunk_type = LUPIN_CHUNK_TYPE
                        THEN Returned(pos)
                        ELSE IF current_chunk_type = IendType
                        THEN Left(NextChunk(pos, chunk_length))
                        ELSE Looping(NextChunk(pos, chunk_length))
    /\ UNCHANGED <<api, carrier, file, calls, tamper>>

\* One iteration of the loop of find_lupin_com_segment
SegmentStep ==
    /\ api = "find_lupin_com_segment"
    /\ scan.at = "loop"
    /\ LET jpeg_data == carrier
           pos == scan.pos
       IN  scan' =
               IF ~(pos + 4 < Len(jpeg_data)) THEN Left(pos)
               ELSE IF At(jpeg_data, pos) # 255 THEN Left(pos)
               ELSE LET marker == read_u16_be(jpeg_data, pos)
                    IN  IF marker = SOS_MARKER \/ marker = EOI_MARKER
                        THEN Left(pos)
                        ELSE IF marker = SOI_MARKER
                                \/ (marker >= RST0_MARKER /\ marker <= RST7_MARKER)
                        THEN Looping(pos + 2)
                        ELSE IF pos + 4 > Len(jpeg_data) THEN Left(pos)
                        ELSE LET length == read_u16_be(jpeg_data, pos + 2)
                             IN  IF marker = APP13_MARKER
                                 THEN Returned(pos)
                                 ELSE Looping(NextSegment(pos, length))
    /\ UNCHANGED <<api, carrier, file, calls, tamper>>

NextScan == IendStep \/ ChunkStep \/ SegmentStep

\* A loop that is running takes its next iteration
SpecScan == InitScan /\ [][NextScan]_vars /\ WF_vars(NextScan)

\* The sessions of the PDF engine and of the PNG engine together
InitPdfPng == \E a \in {"PdfEngine", "PngEngine"} : InitWith(a, Carriers(a))

SpecPdfPng == InitPdfPng /\ [][Next]_vars

(***************************************************************************)
(* What the claims speak of, stated on the bytes and not through the       *)
(* engines' own scans.                                                     *)
(***************************************************************************)
IsEmbed(i) == i <= Len(calls) /\ calls[i].op = "embed"

IsExtract(i) == i <= Len(calls) /\ calls[i].op = "extract"

\* %%EOF lies at offset i of c
EofAt(c, i) == i + 5 <= Len(c) /\ \A k \in 1..5 : c[i + k] = EofMarker[k]

\* %%EOF lies at offset i of c and nowhere to the right of it
RightmostEofAt(c, i) == EofAt(c, i) /\ \A j \in (i + 1)..Len(c) : ~EofAt(c, j)

HasEof(c) == \E i \in 0..Len(c) : EofAt(c, i)

\* Only ASCII whitespace, or nothing, follows the right-most %%EOF of c
BlankAfterEof(c) ==
    \E i \in 0..Len(c) :
        /\ RightmostEofAt(c, i)
        /\ \A j \in (i + 6)..Len(c) : c[j] \in {9, 10, 12, 13, 32}

\* The chunk types a reader meets from offset pos on: each chunk is 4 bytes of
\* length, 4 of type, the data and 4 of CRC; IEND is the last one read
RECURSIVE ChunkTypesFrom(_, _)
ChunkTypesFrom(c, pos) ==
    IF pos + 8 > Len(c) THEN {}
    ELSE LET type == SubSeq(c, pos + 5, pos + 8)
             length == ((c[pos + 1] * 256 + c[pos + 2]) * 256 + c[pos + 3]) * 256 + c[pos + 4]
         IN  IF type = IendType THEN {type}
             ELSE {type} \cup ChunkTypesFrom(c, pos + 12 + length)

\* c is a PNG whose chunk sequence ends with IEND
WellFormedPng(c) == IsPrefix(PngMagic, c) /\ IendType \in ChunkTypesFrom(c, 8)

\* The markers a reader meets from offset pos on, up to SOS or EOI; <<0>> marks
\* a malformed or truncated segment sequence
RECURSIVE MarkersFrom(_, _)
MarkersFrom(c, pos) ==
    IF pos + 2 > Len(c) \/ c[pos + 1] # 255 THEN {0}
    ELSE LET m == c[pos + 2]
         IN  IF m = 217 \/ m = 218 THEN {m}
             ELSE IF m = 216 \/ (m >= 208 /\ m <= 215) THEN {m} \cup MarkersFrom(c, pos + 2)
             ELSE IF pos + 4 > Len(c) THEN {0}
             ELSE LET length == c[pos + 3] * 256 + c[pos + 4]
                  IN  IF length < 2 \/ pos + 2 + length > Len(c) THEN {0}
                      ELSE {m} \cup MarkersFrom(c, pos + 2 + length)

\* c is SOI, complete segments, then SOS or EOI
WellFormedJpeg(c) == IsPrefix(SoiBytes, c) /\ 0 \notin MarkersFrom(c, 2)

\* 0xED: the second byte of the APP13 marker
App13 == 237

(***************************************************************************)
(* PDF engine, checked under SpecPdf.                                      *)
(***************************************************************************)

\* C1: when only whitespace (or nothing) follows the right-most %%EOF of a PDF
\* carrier and the payload is not empty, embed succeeds and extract on its
\* output returns exactly the payload.
C1_PdfRoundTrip ==
    (IsEmbed(1) /\ BlankAfterEof(carrier) /\ calls[1].payload # <<>>)
        => /\ IsOk(calls[1].res)
           /\ IsExtract(2) => calls[2].res = Ok(calls[1].payload)

\* C1 happens: a three-byte payload came back from a carrier that had
\* whitespace after its right-most %%EOF
C1_Witness ==
    /\ IsEmbed(1) /\ IsExtract(2)
    /\ BlankAfterEof(carrier) /\ ~EofAt(carrier, Len(carrier) - 5)
    /\ Len(calls[1].payload) = 3
    /\ calls[2].res = Ok(calls[1].payload)

\* C4 as stated: once embed has succeeded on a PDF carrier, embed on its output
\* fails with EmbedCollision, whatever the two payloads are.
C4_PdfCollisionAnyPayload ==
    (IsEmbed(1) /\ IsEmbed(2)) => IsErr(calls[2].res, "EmbedCollision")

\* C4: once embed has succeeded on a PDF carrier with a payload that is not
\* empty, embed on its output fails with EmbedCollision for every second
\* payload.
C4_PdfCollision ==
    (IsEmbed(1) /\ IsEmbed(2) /\ calls[1].payload # <<>>)
        => IsErr(calls[2].res, "EmbedCollision")

\* C4 happens: a second embed was refused after a first one that stored bytes
C4_Witness ==
    /\ IsEmbed(1) /\ IsEmbed(2)
    /\ calls[1].payload # <<>>
    /\ file # carrier
    /\ IsErr(calls[2].res, "EmbedCollision")

(***************************************************************************)
(* PNG engine, checked under SpecPng and SpecTamper.                       *)
(***************************************************************************)

\* C2: on every PNG carrier on which embed succeeds, extract on the output of
\* embed returns exactly the payload, the empty payload included.
C2_PngRoundTrip ==
    \A i \in 1..Len(calls) :
        (IsEmbed(i) /\ IsOk(calls[i].res) /\ IsExtract(i + 1))
            => calls[i + 1].res = Ok(calls[i].payload)

\* C6: once embed has succeeded on a PNG carrier, embed on its output fails
\* with EmbedCollision.
C6_PngCollision ==
    (IsEmbed(1) /\ IsOk(calls[1].res) /\ IsEmbed(2))
        => IsErr(calls[2].res, "EmbedCollision")

\* C8: after one bit of the data or the CRC of the lpNg chunk that embed
\* inserted is inverted, extract fails with PngCorruptedData.
C8_PngIntegrity ==
    (tamper # NoTamper /\ IsExtract(2))
        => IsErr(calls[2].res, "PngCorruptedData")

(***************************************************************************)
(* JPEG engine, checked under SpecJpeg and SpecCapacity.                   *)
(***************************************************************************)

\* C3: on every JPEG carrier on which embed succeeds, extract on the output of
\* embed returns exactly the payload.
C3_JpegRoundTrip ==
    (IsEmbed(1) /\ IsOk(calls[1].res) /\ IsExtract(2))
        => calls[2].res = Ok(calls[1].payload)

\* C5: once embed has succeeded on a JPEG carrier, embed on its output fails
\* with EmbedCollision.
C5_JpegCollision ==
    (IsEmbed(1) /\ IsOk(calls[1].res) /\ IsEmbed(2) /\ api = "JpegEngine")
        => IsErr(calls[2].res, "EmbedCollision")

\* C9: on a well-formed JPEG carrier without an APP13 segment, embed fails with
\* JpegPayloadTooLarge exactly when 2 plus the length of the Base64 text of the
\* payload exceeds 0xFFFF; otherwise it succeeds and the length field of the
\* inserted segment is that sum.
C9_JpegCapacity ==
    (IsEmbed(1) /\ WellFormedJpeg(carrier) /\ App13 \notin MarkersFrom(carrier, 2))
        => LET total == 2 + Len(Base64Encode(calls[1].payload))
           IN  IF total > 65535
               THEN IsErr(calls[1].res, "JpegPayloadTooLarge")
               ELSE /\ IsOk(calls[1].res)
                    /\ calls[1].res.val[5] * 256 + calls[1].res.val[6] = total

\* C9 happens: the largest payload that fits was stored with length field
\* 0xFFFE, the payload one byte longer having no smaller Base64 text than 0xFFFE
C9_Witness ==
    /\ IsEmbed(1) /\ IsOk(calls[1].res)
    /\ WellFormedJpeg(carrier) /\ App13 \notin MarkersFrom(carrier, 2)
    /\ Len(calls[1].payload) = BoundaryPayloadLen
    /\ calls[1].res.val[5] * 256 + calls[1].res.val[6] = 65534

\* C10: no call of the JPEG engine reads outside its buffer; an APP13 segment
\* whose length is below 2 or reaches past the end of the input gives a typed
\* error.
C10_JpegMemorySafety ==
    \A i \in 1..Len(calls) : calls[i].res.kind # "panic"

(***************************************************************************)
(* operations::extract, checked under Spec.                                *)
(***************************************************************************)

\* C7: on a well-formed carrier without a hidden record, operations::extract
\* returns the engine's own error: PdfNoHiddenData when only whitespace follows
\* the right-most %%EOF, PngNoHiddenData when the chunk walk meets no lpNg
\* chunk, JpegNoHiddenData when no APP13 marker comes before SOS or EOI.
C7_Absence ==
    (IsExtract(1) /\ api = "operations")
        => /\ (IsPrefix(PdfMagic, carrier) /\ BlankAfterEof(carrier))
                => calls[1].res = Err("PdfNoHiddenData")
           /\ (WellFormedPng(carrier) /\ LUPIN_CHUNK_TYPE \notin ChunkTypesFrom(carrier, 8))
                => calls[1].res = Err("PngNoHiddenData")
           /\ (IsPrefix(JpegMagic, carrier) /\ WellFormedJpeg(carrier)
                 /\ App13 \notin MarkersFrom(carrier, 2))
                => calls[1].res = Err("JpegNoHiddenData")

\* C7 happens: extract ran on a well-formed PNG that holds IHDR and IEND and no
\* lpNg chunk
C7_Witness ==
    /\ IsExtract(1) /\ api = "operations"
    /\ WellFormedPng(carrier)
    /\ ChunkTypesFrom(carrier, 8) = {<<73, 72, 68, 82>>, IendType}
    /\ calls[1].res = Err("PngNoHiddenData")

(***************************************************************************)
(* The router and the operations, checked under Spec.                      *)
(***************************************************************************)

\* The buffer call i was given: the carrier, or what the embed before returned
Input(i) == IF i = 1 THEN carrier ELSE calls[i - 1].res.val

\* The engines whose signature is a prefix of c
Matching(c) ==
    {e \in {"PDF", "PNG", "JPEG"} :
        IsPrefix(IF e = "PDF" THEN PdfMagic ELSE IF e = "PNG" THEN PngMagic ELSE JpegMagic, c)}

\* What engine e returns for call i
EngineResult(e, i) ==
    IF calls[i].op = "embed"
    THEN IF e = "PDF" THEN PdfEmbed(Input(i), calls[i].payload)
         ELSE IF e = "PNG" THEN PngEmbed(Input(i), calls[i].payload)
         ELSE JpegEmbed(Input(i), calls[i].payload)
    ELSE IF e = "PDF" THEN PdfExtract(Input(i))
         ELSE IF e = "PNG" THEN PngExtract(Input(i))
         ELSE JpegExtract(Input(i))

LacksSoi(c) == Len(c) < 2 \/ c[1] # 255 \/ c[2] # 216

\* C12: on a buffer shorter than 2 bytes or not beginning with FF D8, both
\* embed and extract of the JPEG engine fail with JpegInvalidFormat.
C12_JpegFailFast ==
    (api = "JpegEngine" /\ Len(calls) >= 1 /\ LacksSoi(carrier))
        => IsErr(calls[1].res, "JpegInvalidFormat")

\* c ends with %%EOF
EndsWithEof(c) == Len(c) >= 5 /\ EofAt(c, Len(c) - 5)

\* C13: embed of the empty payload into a PDF that ends with its right-most
\* %%EOF succeeds and returns the carrier byte for byte, and extract on that
\* output fails with PdfNoHiddenData.
C13_PdfEmptyPayload ==
    (api = "PdfEngine" /\ IsEmbed(1) /\ calls[1].payload = <<>> /\ EndsWithEof(carrier))
        => /\ calls[1].res = Ok(carrier)
           /\ IsExtract(2) => calls[2].res = Err("PdfNoHiddenData")

\* C13 happens: the empty payload was embedded into a PDF ending with %%EOF and
\* extract then ran on the output
C13_Witness ==
    /\ api = "PdfEngine"
    /\ IsEmbed(1) /\ calls[1].payload = <<>>
    /\ EndsWithEof(carrier)
    /\ file = carrier
    /\ IsExtract(2) /\ IsErr(calls[2].res, "PdfNoHiddenData")

\* C15: whenever embed of the PDF engine succeeds, its output is the carrier up
\* to the end of its right-most %%EOF followed by the Base64 text of the payload
\* and nothing else; for the 125-byte minimal PDF and the payload "secret
\* message" the output has 145 bytes and ends with c2VjcmV0IG1lc3NhZ2U=.
C15_PdfLayout ==
    api = "PdfEngine"
        => /\ \A i \in 1..Len(calls) :
                (IsEmbed(i) /\ IsOk(calls[i].res))
                    => \E e \in 0..Len(Input(i)) :
                        /\ RightmostEofAt(Input(i), e)
                        /\ calls[i].res.val
                             = SubSeq(Input(i), 1, e + 5) \o Base64Encode(calls[i].payload)
           /\ (IsEmbed(1) /\ carrier = MinimalPdf /\ calls[1].payload = SecretMessage)
                => /\ IsOk(calls[1].res)
                   /\ Len(calls[1].res.val) = 145
                   /\ SubSeq(calls[1].res.val, 126, 145) =
                        << 99, 50, 86, 106, 99, 109, 86, 48, 73, 71, 49, 108, 99, 51, 78, 104, 90, 50, 85, 61 >>

\* C15 happens: a payload was stored in a carrier that holds an earlier %%EOF
\* besides its right-most one
C15_Witness ==
    /\ api = "PdfEngine"
    /\ IsEmbed(1) /\ IsOk(calls[1].res) /\ calls[1].payload # <<>>
    /\ \E e \in 0..Len(carrier) : EofAt(carrier, e) /\ ~RightmostEofAt(carrier, e)
    /\ Len(file) = Len(carrier) + Len(Base64Encode(calls[1].payload))

\* The offset of the first IEND chunk a reader meets from offset pos on, or -1
RECURSIVE FirstIendFrom(_, _)
FirstIendFrom(c, pos) ==
    IF pos + 8 > Len(c) THEN -1
    ELSE IF SubSeq(c, pos + 5, pos + 8) = IendType THEN pos
    ELSE FirstIendFrom(c, pos + 12
            + ((c[pos + 1] * 256 + c[pos + 2]) * 256 + c[pos + 3]) * 256 + c[pos + 4])

\* [4-byte big-endian length]["lpNg"][text][CRC-32 of type and text]
LupinChunkOf(text) ==
    <<0, 0, Len(text) \div 256, Len(text) % 256>> \o <<108, 112, 78, 103>> \o text
        \o calculate_crc(<<108, 112, 78, 103>>, text)

\* C16: whenever embed of the PNG engine succeeds, its output is the carrier up
\* to its first IEND chunk, then the chunk [length]["lpNg"][Base64 text][CRC-32
\* of type and text], then the carrier from IEND on; so it is 12 bytes plus the
\* length of the Base64 text longer than the carrier.  The CRC-32 of the empty
\* text is B9696987 and that of "TWFu" is BB9EB707.
C16_PngLayout ==
    api = "PngEngine"
        => \A i \in 1..Len(calls) :
            (IsEmbed(i) /\ IsOk(calls[i].res))
                => LET in == Input(i)
                       out == calls[i].res.val
                       text == Base64Encode(calls[i].payload)
                       iend == FirstIendFrom(in, 8)
                   IN  /\ iend >= 8
                       /\ out = SubSeq(in, 1, iend) \o LupinChunkOf(text)
                                    \o SubSeq(in, iend + 1, Len(in))
                       /\ Len(out) = Len(in) + Len(text) + 12
                       /\ calls[i].payload = <<>>
                            => SubSeq(out, iend + 9, iend + 12) = <<185, 105, 105, 135>>
                       /\ calls[i].payload = <<77, 97, 110>>
                            => SubSeq(out, iend + 13, iend + 16) = <<187, 158, 183, 7>>

\* C16 happens: the payload "Man" was stored in a PNG that holds IHDR before IEND
C16_Witness ==
    /\ api = "PngEngine"
    /\ IsEmbed(1) /\ IsOk(calls[1].res)
    /\ calls[1].payload = <<77, 97, 110>>
    /\ FirstIendFrom(carrier, 8) > 8
    /\ Len(file) = Len(carrier) + 16

\* C17: whenever embed of the JPEG engine succeeds, its output is the first two
\* bytes of the carrier, then FF ED, then 2 plus the length of the Base64 text
\* as two big-endian bytes, then the Base64 text, then the carrier from offset 2
\* on; so it is 4 bytes plus the length of the Base64 text longer than the
\* carrier.
C17_JpegLayout ==
    api = "JpegEngine"
        => \A i \in 1..Len(calls) :
            (IsEmbed(i) /\ IsOk(calls[i].res))
                => LET in == Input(i)
                       out == calls[i].res.val
                       text == Base64Encode(calls[i].payload)
                   IN  /\ out = SubSeq(in, 1, 2) \o <<255, 237>>
                                    \o <<(2 + Len(text)) \div 256, (2 + Len(text)) % 256>>
                                    \o text \o SubSeq(in, 3, Len(in))
                       /\ Len(out) = Len(in) + Len(text) + 4

\* C17 happens: the payload "Man" was stored in a JPEG that holds an APP0 segment
\* after SOI
C17_Witness ==
    /\ api = "JpegEngine"
    /\ IsEmbed(1) /\ IsOk(calls[1].res)
    /\ calls[1].payload = <<77, 97, 110>>
    /\ Len(carrier) > 4 /\ carrier[4] = 224
    /\ SubSeq(file, 3, 10) = <<255, 237, 0, 6, 84, 87, 70, 117>>

\* C18: embed and extract of the PDF engine on a buffer without %%EOF fail with
\* PdfNoEofMarker, and embed of the PNG engine on a buffer whose chunk walk ends
\* without meeting IEND fails with PngNoIdatChunk; no buffer is returned.
C18_MissingTerminator ==
    /\ (api = "PdfEngine" /\ Len(calls) >= 1 /\ ~HasEof(carrier))
        => calls[1].res = Err("PdfNoEofMarker") /\ file = carrier
    /\ (api = "PngEngine" /\ IsEmbed(1) /\ FirstIendFrom(carrier, 8) = -1)
        => calls[1].res = Err("PngNoIdatChunk") /\ file = carrier

\* C18 happens: embed was refused on a PNG that holds IHDR and no IEND
C18_Witness ==
    /\ api = "PngEngine"
    /\ IsEmbed(1)
    /\ ChunkTypesFrom(carrier, 8) = {<<73, 72, 68, 82>>}
    /\ IsErr(calls[1].res, "PngNoIdatChunk")

\* C18 happens for PDF as well: extract was refused on a PDF without %%EOF
C18_WitnessPdf ==
    /\ api = "PdfEngine"
    /\ IsExtract(1)
    /\ ~HasEof(carrier) /\ Len(carrier) > 4
    /\ IsErr(calls[1].res, "PdfNoEofMarker")

\* C19: when operations::embed succeeds, its EmbedResult holds the length of the
\* carrier, the length of the payload, the length of the returned buffer and the
\* format name of the engine whose signature the carrier has; when
\* operations::extract succeeds on that buffer, its ExtractResult holds the
\* length of its input and of the returned payload, and the engine name and
\* payload size of the embed that made its input.
C19_Metadata ==
    api = "operations"
        => \A i \in 1..Len(calls) :
            /\ (IsEmbed(i) /\ IsOk(calls[i].res))
                => /\ calls[i].meta.source_size = Len(Input(i))
                   /\ calls[i].meta.payload_size = Len(calls[i].payload)
                   /\ calls[i].meta.output_size = Len(calls[i].res.val)
                   /\ Matching(Input(i)) = {calls[i].meta.engine}
            /\ (IsExtract(i) /\ IsOk(calls[i].res))
                => /\ calls[i].meta.source_size = Len(Input(i))
                   /\ calls[i].meta.payload_size = Len(calls[i].res.val)
                   /\ i > 1
                        => /\ calls[i].meta.engine = calls[i - 1].meta.engine
                           /\ calls[i].meta.payload_size = calls[i - 1].meta.payload_size

\* C20: whenever embed succeeds on a carrier that begins with an engine's
\* signature, the output begins with the same signature and with no other, so
\* operations::extract on the output of operations::embed returns what the
\* extract of the engine that embedded returns.
C20_SignaturePreserved ==
    api = "operations"
        => \A i \in 1..Len(calls) :
            (IsEmbed(i) /\ IsOk(calls[i].res))
                => /\ Cardinality(Matching(Input(i))) = 1
                   /\ Matching(calls[i].res.val) = Matching(Input(i))
                   /\ IsExtract(i + 1)
                        => \A e \in Matching(Input(i)) :
                            /\ calls[i + 1].res = EngineResult(e, i + 1)
                            /\ IsOk(calls[i + 1].res) => calls[i + 1].meta.engine = e

\* C20 happens: a payload was embedded into a JPEG through operations and
\* extracted again by the JPEG engine
C20_Witness ==
    /\ api = "operations"
    /\ IsEmbed(1) /\ IsOk(calls[1].res)
    /\ IsPrefix(JpegMagic, carrier) /\ IsPrefix(JpegMagic, file)
    /\ IsExtract(2) /\ IsOk(calls[2].res)
    /\ calls[2].meta.engine = "JPEG"

(***************************************************************************)
(* Second records, collisions and damaged records.                         *)
(***************************************************************************)

\* C21: embed of the PNG engine succeeds on a PNG that already holds an lpNg
\* chunk before its IEND; after embed(embed(c, p), q) on a carrier c without
\* one, the output holds the chunk of p, then the chunk of q, then IEND, and
\* extract returns p, the first of the two, whatever q is.
C21_PngDoubleEmbed ==
    api = "PngEngine"
        => /\ \A i \in 1..Len(calls) :
                (IsEmbed(i) /\ WellFormedPng(Input(i))
                    /\ LUPIN_CHUNK_TYPE \in ChunkTypesFrom(Input(i), 8))
                    => IsOk(calls[i].res)
           /\ (IsEmbed(1) /\ IsEmbed(2) /\ LUPIN_CHUNK_TYPE \notin ChunkTypesFrom(carrier, 8))
                => LET iend == FirstIendFrom(carrier, 8)
                   IN  /\ IsOk(calls[2].res)
                       /\ calls[2].res.val
                            = SubSeq(carrier, 1, iend)
                              \o LupinChunkOf(Base64Encode(calls[1].payload))
                              \o LupinChunkOf(Base64Encode(calls[2].payload))
                              \o SubSeq(carrier, iend + 1, Len(carrier))
                       /\ IsExtract(3) => calls[3].res = Ok(calls[1].payload)

\* C21 happens: "Man" and then one other byte were embedded into a PNG without
\* an lpNg chunk, and extract returned "Man"
C21_Witness ==
    /\ api = "PngEngine"
    /\ IsEmbed(1) /\ IsEmbed(2) /\ IsExtract(3)
    /\ LUPIN_CHUNK_TYPE \notin ChunkTypesFrom(carrier, 8)
    /\ calls[1].payload = <<77, 97, 110>>
    /\ Len(calls[2].payload) = 1
    /\ calls[3].res = Ok(<<77, 97, 110>>)

\* C22: on a carrier that holds %%EOF, embed of the PDF engine fails with
\* EmbedCollision exactly when some byte after the right-most %%EOF is not
\* ASCII whitespace; otherwise it succeeds, whatever the payload.
C22_PdfCollisionCondition ==
    (api = "PdfEngine" /\ IsEmbed(1) /\ HasEof(carrier))
        => IF BlankAfterEof(carrier)
           THEN IsOk(calls[1].res)
           ELSE IsErr(calls[1].res, "EmbedCollision")

\* C22 happens: embed was refused because a vertical tab, which is not ASCII
\* whitespace, follows the right-most %%EOF
C22_Witness ==
    /\ api = "PdfEngine"
    /\ IsEmbed(1)
    /\ EndsWithEof(SubSeq(carrier, 1, Len(carrier) - 1))
    /\ carrier[Len(carrier)] = 11
    /\ IsErr(calls[1].res, "EmbedCollision")

\* A reader that follows the chunks from offset pos on meets the header of an
\* lpNg chunk before it meets IEND; 8 bytes of header must be there
RECURSIVE MeetsLupinHeader(_, _)
MeetsLupinHeader(c, pos) ==
    IF pos + 8 > Len(c) THEN FALSE
    ELSE IF SubSeq(c, pos + 5, pos + 8) = <<108, 112, 78, 103>> THEN TRUE
    ELSE IF SubSeq(c, pos + 5, pos + 8) = IendType THEN FALSE
    ELSE MeetsLupinHeader(c, pos + 12
            + ((c[pos + 1] * 256 + c[pos + 2]) * 256 + c[pos + 3]) * 256 + c[pos + 4])

\* C23: extract of the PNG engine returns PngNoHiddenData only when the chunk
\* walk meets no lpNg chunk; when it meets the header of one and the record
\* cannot be recovered (CRC mismatch, a data length past the end of the buffer,
\* text that is not Base64), the error is PngCorruptedData.
C23_PngAbsentOrCorrupted ==
    (api = "PngEngine" /\ IsExtract(1))
        => IF MeetsLupinHeader(carrier, 8)
           THEN IsOk(calls[1].res) \/ IsErr(calls[1].res, "PngCorruptedData")
           ELSE IsErr(calls[1].res, "PngNoHiddenData")

\* The marker walk as described: from offset pos on, SOI and RSTn are skipped
\* by 2 bytes, every other marker by 2 plus its declared length; the walk
\* stops at SOS, at EOI and where the marker position does not hold 0xFF, and
\* reports the first APP13 whose marker and length field it reaches
RECURSIVE ReportsApp13(_, _)
ReportsApp13(c, pos) ==
    IF pos + 2 > Len(c) \/ c[pos + 1] # 255 THEN FALSE
    ELSE LET m == c[pos + 2]
         IN  IF m = 217 \/ m = 218 THEN FALSE
             ELSE IF m = 216 \/ (m >= 208 /\ m <= 215) THEN ReportsApp13(c, pos + 2)
             ELSE IF pos + 4 > Len(c) THEN FALSE
             ELSE IF m = App13 THEN TRUE
             ELSE ReportsApp13(c, pos + 2 + c[pos + 3] * 256 + c[pos + 4])

\* C24: the JPEG marker walk starts at offset 2, skips SOI/RSTn by 2 bytes and
\* other markers by 2 plus their length, stops at SOS, EOI or a byte that is
\* not 0xFF, and reports the first APP13 reached before the stop; embed fails
\* with EmbedCollision exactly when the walk reports an APP13, extract fails
\* with JpegNoHiddenData exactly when it reports none.
C24_JpegMarkerWalk ==
    \A i \in 1..Len(calls) :
        /\ IsEmbed(i) =>
            (IsErr(calls[i].res, "EmbedCollision") <=> ReportsApp13(Input(i), 2))
        /\ IsExtract(i) =>
            (IsErr(calls[i].res, "JpegNoHiddenData") <=> ~ReportsApp13(Input(i), 2))

\* s without the ASCII whitespace that leads it
RECURSIVE DropBlanks(_)
DropBlanks(s) ==
    IF s # <<>> /\ s[1] \in {9, 10, 12, 13, 32} THEN DropBlanks(Tail(s)) ELSE s

\* The remainder of c after its right-most %%EOF, leading whitespace dropped
PdfRecord(c) ==
    LET i == CHOOSE i \in 0..Len(c) : RightmostEofAt(c, i)
    IN  DropBlanks(SubSeq(c, i + 6, Len(c)))

\* The offset of the first lpNg chunk a reader meets from offset pos on before
\* IEND, or -1
RECURSIVE FirstLupinFrom(_, _)
FirstLupinFrom(c, pos) ==
    IF pos + 8 > Len(c) THEN -1
    ELSE IF SubSeq(c, pos + 5, pos + 8) = <<108, 112, 78, 103>> THEN pos
    ELSE IF SubSeq(c, pos + 5, pos + 8) = IendType THEN -1
    ELSE FirstLupinFrom(c, pos + 12
            + ((c[pos + 1] * 256 + c[pos + 2]) * 256 + c[pos + 3]) * 256 + c[pos + 4])

\* The first lpNg chunk of c is complete, its CRC verifies, and text is its data
PngRecordIs(c, text) ==
    LET p == FirstLupinFrom(c, 8)
    IN  /\ p >= 8
        /\ p + 12 + Len(text) <= Len(c)
        /\ SubSeq(c, p + 1, p + 12 + Len(text)) = LupinChunkOf(text)

\* The offset of the first APP13 marker the marker walk reaches from offset pos
\* on, or -1
RECURSIVE FirstApp13From(_, _)
FirstApp13From(c, pos) ==
    IF pos + 2 > Len(c) \/ c[pos + 1] # 255 THEN -1
    ELSE LET m == c[pos + 2]
         IN  IF m = 217 \/ m = 218 THEN -1
             ELSE IF m = 216 \/ (m >= 208 /\ m <= 215) THEN FirstApp13From(c, pos + 2)
             ELSE IF pos + 4 > Len(c) THEN -1
             ELSE IF m = App13 THEN pos
             ELSE FirstApp13From(c, pos + 2 + c[pos + 3] * 256 + c[pos + 4])

\* The first APP13 segment of c lies inside c and text is what follows its
\* length field
JpegRecordIs(c, text) ==
    LET p == FirstApp13From(c, 2)
    IN  /\ p >= 2
        /\ c[p + 3] * 256 + c[p + 4] = 2 + Len(text)
        /\ p + 4 + Len(text) <= Len(c)
        /\ SubSeq(c, p + 5, p + 4 + Len(text)) = text

\* The texts that are not Base64, of the lengths the carriers hold
UndecodableTexts ==
    {s \in {NotBase64, <<65>>, <<37>>, <<11>>, <<65, 10>>, <<10>>, <<0>>,
            NotBase64 \o <<10>>, <<65, 65>>, <<65, 37>>, <<37, 37, 69, 79, 70>>} :
        ~IsOk(Base64Decode(s))}

\* C25: when the place of the hidden record holds bytes that are not valid
\* Base64, extract returns the corrupted-data error of its format and no
\* payload: PdfCorruptedData for the remainder after the right-most %%EOF
\* (leading whitespace skipped), PngCorruptedData for an lpNg chunk whose CRC
\* verifies, JpegExtractionFailed for the bytes of the APP13 segment after its
\* length field.
C25_UndecodableRecord ==
    \A i \in 1..Len(calls) :
        IsExtract(i) =>
            LET c == Input(i)
            IN  /\ (api = "PdfEngine" /\ HasEof(c) /\ PdfRecord(c) # <<>>
                        /\ ~IsOk(Base64Decode(PdfRecord(c))))
                    => IsErr(calls[i].res, "PdfCorruptedData")
                /\ (api = "PngEngine" /\ \E t \in UndecodableTexts : PngRecordIs(c, t))
                    => IsErr(calls[i].res, "PngCorruptedData")
                /\ (api = "JpegEngine" /\ \E t \in UndecodableTexts : JpegRecordIs(c, t))
                    => IsErr(calls[i].res, "JpegExtractionFailed")

\* extract has met a PNG chunk with a matching CRC around text that is not
\* Base64
C25_Witness ==
    /\ api = "PngEngine"
    /\ IsExtract(1)
    /\ PngRecordIs(carrier, NotBase64)
    /\ IsErr(calls[1].res, "PngCorruptedData")

\* The number of bytes of c after its right-most %%EOF
AfterEof(c) ==
    LET i == CHOOSE i \in 0..Len(c) : RightmostEofAt(c, i)
    IN  Len(c) - (i + 5)

\* C26 as stated: for every engine, whenever embed of a non-empty payload
\* succeeds, its output is strictly longer than the carrier it was given.
C26_OutputGrowth ==
    \A i \in 1..Len(calls) :
        (IsEmbed(i) /\ IsOk(calls[i].res) /\ calls[i].payload # <<>>)
            => Len(calls[i].res.val) > Len(Input(i))

\* C26, amended: whenever embed of a non-empty payload succeeds, the output of
\* the PNG and JPEG engines is strictly longer than the carrier, and the output
\* of the PDF engine is strictly longer than the carrier up to the end of its
\* right-most %%EOF.
C26_OutputGrowthPastMarker ==
    \A i \in 1..Len(calls) :
        (IsEmbed(i) /\ IsOk(calls[i].res) /\ calls[i].payload # <<>>)
            => Len(calls[i].res.val) >
                   Len(Input(i)) - (IF api = "PdfEngine" THEN AfterEof(Input(i)) ELSE 0)

\* A one-byte payload has replaced five bytes of whitespace: the output is
\* shorter than the carrier
C26_Witness ==
    /\ api = "PdfEngine"
    /\ IsEmbed(1)
    /\ IsOk(calls[1].res)
    /\ Len(calls[1].payload) = 1
    /\ AfterEof(carrier) = 5
    /\ Len(file) = Len(carrier) - 1

\* C27: on malformed buffers (shorter than the 8-byte signature, cut inside a
\* chunk header, length fields beyond the bytes that remain) the IEND scan and
\* the chunk extraction of the PNG engine read only inside the buffer: each
\* returns a position or bytes, or a typed error, and so does every call of
\* the engine.
C27_PngMemorySafety ==
    api = "PngEngine" =>
        \A i \in 1..Len(calls) :
            /\ find_iend_position(Input(i)) # OutOfRange
            /\ extract_custom_chunk(Input(i), LUPIN_CHUNK_TYPE) # Panic
            /\ calls[i].res # Panic
            /\ IsOk(calls[i].res) \/ calls[i].res.err \in
                   {"PngNoIdatChunk", "PngNoHiddenData", "PngCorruptedData"}

\* Both scans have run on a buffer that ends inside a chunk header and on one
\* whose length field points far past its end
C27_Witness ==
    /\ api = "PngEngine"
    /\ Len(calls) = 1
    /\ IsErr(calls[1].res, IF IsEmbed(1) THEN "PngNoIdatChunk" ELSE "PngNoHiddenData")
    /\ \/ carrier = PngMagic \o <<0, 0, 0, 0, 73, 69>>
       \/ carrier = PngMagic \o <<127, 0, 0, 0, 73, 68, 65, 84>> \o IendChunk

\* The bits of the bytes of s, the least significant bit of each byte first
BitsOf(s) == [k \in 1..(8 * Len(s)) |-> (s[((k - 1) \div 8) + 1] \div BitWeight[((k - 1) % 8) + 1]) % 2]

\* x^32 + x^26 + x^23 + x^22 + x^16 + x^12 + x^11 + x^10 + x^8 + x^7 + x^5 + x^4
\* + x^2 + x + 1, the highest coefficient first
Crc32Generator ==
    <<1, 0, 0, 0, 0, 0, 1, 0, 0, 1, 1, 0, 0, 0, 0, 0, 1, 0, 0, 0, 1, 1, 1, 0, 1, 1, 0, 1,
      1, 0, 1, 1, 1>>

\* The remainder of the division of the polynomial bits by the generator:
\* positions i .. Len(bits) - 32 are still to be cleared
RECURSIVE PolyRemainder(_, _)
PolyRemainder(bits, i) ==
    IF i > Len(bits) - 32 THEN SubSeq(bits, Len(bits) - 31, Len(bits))
    ELSE IF bits[i] = 0 THEN PolyRemainder(bits, i + 1)
    ELSE PolyRemainder(
             [k \in 1..Len(bits) |->
                 IF k >= i /\ k <= i + 32 THEN (bits[k] + Crc32Generator[k - i + 1]) % 2
                 ELSE bits[k]],
             i + 1)

\* CRC-32 as ISO 3309 and the PNG specification define it: the message, bits
\* of each byte least significant first, times x^32, its first 32 coefficients
\* complemented, divided by the generator; the complement of the remainder,
\* the coefficient of x^31 its least significant bit.  As 4 big-endian bytes.
Crc32Reference(s) ==
    LET shifted == BitsOf(s) \o [k \in 1..32 |-> 0]
        message == [k \in 1..Len(shifted) |-> IF k <= 32 THEN 1 - shifted[k] ELSE shifted[k]]
        r == PolyRemainder(message, 1)
        byte(b) == LET lo == 8 * (4 - b)
                       bit(j) == (1 - r[lo + j + 1]) * BitWeight[j + 1]
                   IN  bit(0) + bit(1) + bit(2) + bit(3) + bit(4) + bit(5) + bit(6) + bit(7)
    IN  <<byte(1), byte(2), byte(3), byte(4)>>

\* C28: calculate_crc returns the standard CRC-32 (reflected polynomial
\* 0xEDB88320, initial value 0xFFFFFFFF, least significant bit first, final
\* XOR 0xFFFFFFFF) of the chunk type followed by the data, a value of 32 bits;
\* it is 0xAE426082 for the type IEND with empty data.
C28_PngCrc ==
    (api = "calculate_crc" /\ calls # <<>>)
        => LET crc == calls[1].res.val
           IN  /\ crc = Crc32Reference(carrier)
               /\ Len(crc) = 4
               /\ \A k \in 1..4 : crc[k] \in 0..255
               /\ carrier = <<73, 69, 78, 68>> => crc = <<174, 66, 96, 130>>
               /\ carrier = <<49, 50, 51, 52, 53, 54, 55, 56, 57>> => crc = <<203, 244, 57, 38>>

\* The checksum of IEND with empty data has been computed
C28_Witness ==
    /\ api = "calculate_crc"
    /\ calls # <<>>
    /\ carrier = <<73, 69, 78, 68>>
    /\ calls[1].res.val = <<174, 66, 96, 130>>

\* The loop has ended: the function has returned from inside it or has left it
ScanEnded == scan.at \in {"returned", "left"}

\* What the function whose loop has ended returns agrees with how it ended:
\* the match at scan.pos when it returned from the loop, the absence of a match
\* when it left the loop
ScanAgrees ==
    IF api = "find_iend_position"
    THEN find_iend_position(carrier) = (IF scan.at = "returned" THEN scan.pos ELSE None)
    ELSE IF api = "extract_custom_chunk"
    THEN extract_custom_chunk(carrier, LUPIN_CHUNK_TYPE)
            = (IF scan.at = "returned" THEN ChunkWalk(carrier, LUPIN_CHUNK_TYPE, scan.pos)
               ELSE Err("PngNoHiddenData"))
    ELSE IF scan.at = "returned"
         THEN find_lupin_com_segment(carrier) # NoSegment
              /\ find_lupin_com_segment(carrier)[1] = scan.pos
         ELSE find_lupin_com_segment(carrier) = NoSegment

\* C29: the chunk walks of the PNG engine and the marker walk of the JPEG
\* engine terminate on every finite buffer: each iteration of the loop
\* returns, leaves the loop, or moves the position strictly forward, also when
\* the declared length is 0; the loop ends the way the function's result tells.
C29_ScanTermination ==
    /\ <>ScanEnded
    /\ [][scan.at = "loop" => (scan'.at \in {"returned", "left"} \/ scan'.pos > scan.pos)]_vars
    /\ [](scan.at # "loop" => (ScanEnded /\ ScanAgrees))

\* The marker walk has gone over a segment of declared length 0 and ended
C29_Witness ==
    /\ api = "find_lupin_com_segment"
    /\ ScanEnded
    /\ scan.pos = 4
    /\ SubSeq(carrier, 3, 6) = <<255, 224, 0, 0>>
\* C30: whenever embed of the PDF engine succeeds, the right-most %%EOF of the
\* output lies at the offset of the right-most %%EOF of the carrier (the
\* appended Base64 text neither forms nor completes a later marker), and
\* extract on the output reads exactly the appended bytes: what follows that
\* marker is the Base64 text of the payload, and extract returns its decoding
\* (PdfNoHiddenData when nothing was appended).
C30_PdfMarkerStability ==
    \A i \in 1..Len(calls) :
        (api = "PdfEngine" /\ IsEmbed(i) /\ IsOk(calls[i].res))
            => LET in == Input(i)
                   out == calls[i].res.val
                   appended == SubSeq(out, Len(in) - AfterEof(in) + 1, Len(out))
               IN  /\ \A e \in 0..Len(out) : RightmostEofAt(out, e) <=> RightmostEofAt(in, e)
                   /\ appended = Base64Encode(calls[i].payload)
                   /\ IsExtract(i + 1) =>
                        calls[i + 1].res = (IF appended = <<>> THEN Err("PdfNoHiddenData")
                                            ELSE Ok(calls[i].payload))

\* A payload has been embedded into a carrier with two %%EOF markers and read
\* back from behind the second one
C30_Witness ==
    /\ api = "PdfEngine"
    /\ IsEmbed(1)
    /\ IsExtract(2)
    /\ calls[1].payload # <<>>
    /\ calls[2].res = Ok(calls[1].payload)
    /\ \E e1, e2 \in 0..Len(carrier) : e1 < e2 /\ EofAt(carrier, e1) /\ RightmostEofAt(file, e2)

====
